---- MODULE Spec2Model ----
(***************************************************************************)
(* Monte Carlo elastic-rod model of DNA (src/src/dnaMC.py, src/src/utils.py) *)
(* as a state machine: the helpers of utils.py as operators, the factory    *)
(* NucleosomeArray.create, the Metropolis sweep, the relaxation and torsion  *)
(* protocols and the Evolution record.                                       *)
(*                                                                           *)
(* Angles are integers counting quarter turns (pi/2), so that every sine and *)
(* cosine is -1, 0 or 1 and the rotation matrices are exact.  Lengths and    *)
(* base-pair counts are integers as in the source.                           *)
(***************************************************************************)
EXTENDS Integers, Sequences, FiniteSets, TLC

VARIABLES
    call,       \* a call of a pure helper: its name, arguments and result
    kind,       \* class of the strand object
    L,          \* rod count, self.L
    euler,      \* self.euler: rod index 0..L-1 -> <<phi, theta, psi>>
    rng,        \* state of the process-global generator np.random
    pc,         \* position of the caller: "idle", "chunk", "sweep", "save", "done", "raised"
    run,        \* the active protocol call: its arguments and loop variables
    evol,       \* the Evolution object of the active protocol call
    hist        \* history kept for the properties: what the run did so far

pureVars == <<call>>
mainVars == <<kind, L, euler, rng, pc, run, evol, hist>>
vars == <<call, kind, L, euler, rng, pc, run, evol, hist>>

None == "None"

(***************************************************************************)
(* Bounds of the model.                                                    *)
(***************************************************************************)
MaxParts == 5       \* partition alone: n_parts in 1..MaxParts
MaxTotal == 12      \* partition alone: total in 0..MaxTotal
MaxTwist == 4       \* twist_steps alone: start, stop, step in -MaxTwist..MaxTwist
MaxDefaultStep == 2 \* twist_steps alone: default_step_size in 1..MaxDefaultStep
MaxNucleosomes == 3     \* create alone: nucleosomeCount in 0..MaxNucleosomes
MaxBasePairsPerRod == 2 \* create alone: basePairsPerRod in 1..MaxBasePairsPerRod
MaxBasePairs == 4       \* create alone: linker, spacer in 0..MaxBasePairs
MaxL == 4           \* rod count L in 2..MaxL
MaxSeed == 1        \* initial generator state in 0..MaxSeed
MaxSteps == 2       \* mcSteps in 0..MaxSteps
MaxSamples == 2     \* nsamples in 1..MaxSamples
MaxTurn == 2        \* (stop, step) of a protocol run in 1..MaxTurn quarter turns
MaxDirectSweeps == 1 \* calls of metropolisUpdate outside a protocol
MaxPsi0 == 1        \* psi given to rod L-1 before the run, in 0..MaxPsi0 quarter turns
MaxReplicaSweeps == 2 \* two strands: sweeps of the strand that is watched
MaxOtherOps == 2    \* two strands: sweeps and constructions of the other strand
MaxDisorderedOps == 4 \* disordered strand: sweeps and torsion runs after construction
MaxArrayRods == 6   \* created arrays that are examined have at most this many rods
MaxPassRods == 6    \* the passes of a sweep one by one: L in 3..MaxPassRods
MaxPassSeed == 3    \* ... generator states 0..MaxPassSeed at the start
MaxPassSweeps == 2  \* ... sweeps per strand
MaxRods == 6        \* the bookkeeping of one component alone: L in 2..MaxRods

(***************************************************************************)
(* Sequence helpers.                                                       *)
(***************************************************************************)
RECURSIVE SumSeq(_)
SumSeq(s) == IF s = <<>> THEN 0 ELSE Head(s) + SumSeq(Tail(s))

Repeat(x, n) == [i \in 1..n |-> x]

(***************************************************************************)
(* utils.partition(n_parts, total)                                         *)
(***************************************************************************)
partition_strict(n_parts, total) ==
    LET arr == IF total > n_parts THEN Repeat(total \div n_parts, n_parts) ELSE <<>>
        rem == total % n_parts
    IN  IF rem # 0 THEN Append(arr, rem) ELSE arr

partition(n_parts, total) ==
    LET arr == IF total >= n_parts THEN Repeat(total \div n_parts, n_parts) ELSE <<>>
        rem == total % n_parts
    IN  IF rem # 0 THEN Append(arr, rem) ELSE arr

\* The element type of the array partition returns: np.array([]) is an array
\* of floats and np.append(arr, rem) keeps the type of arr, so the chunks are
\* integers only when total >= n_parts.
partition_dtype(n_parts, total) == IF total >= n_parts THEN "int" ELSE "float"

(***************************************************************************)
(* numpy.arange(start, stop, step) on integers: ceil((stop - start)/step)  *)
(* values start, start + step, ...; a zero step divides by zero.           *)
(***************************************************************************)
Abs(x) == IF x < 0 THEN -x ELSE x

CeilDiv(a, b) == IF b > 0 THEN -((-a) \div b) ELSE -(a \div (-b))

ArangeLen(start, stop, step) ==
    LET n == CeilDiv(stop - start, step) IN IF n > 0 THEN n ELSE 0

Arange(start, stop, step) ==
    IF step = 0
    THEN [ok |-> FALSE, err |-> "ZeroDivisionError", val |-> <<>>]
    ELSE [ok |-> TRUE, err |-> None,
          val |-> [i \in 1..ArangeLen(start, stop, step) |-> start + (i - 1) * step]]

(***************************************************************************)
(* utils.smart_arange(start, stop, step, incl=True)                        *)
(***************************************************************************)
smart_arange(start, stop, step) ==
    LET s == IF (stop - start) * step > 0 THEN step ELSE -step
    IN  Arange(start, stop + s, s)

(***************************************************************************)
(* utils.twist_steps(default_step_size, twists).  twists is a number       *)
(* (form "stop"), a tuple (form "tuple") or a list or array of targets     *)
(* (form "list"); v holds its components.                                  *)
(***************************************************************************)
twist_steps(default_step_size, twists) ==
    IF twists.form = "stop"
    THEN LET f == twists.v[1]
             tmp == IF Abs(default_step_size) <= Abs(f) THEN default_step_size ELSE f
         IN  smart_arange(0, f, tmp)
    ELSE IF twists.form = "tuple"
    THEN IF Len(twists.v) = 2 THEN smart_arange(0, twists.v[1], twists.v[2])
         ELSE IF Len(twists.v) = 3 THEN smart_arange(twists.v[1], twists.v[2], twists.v[3])
         ELSE [ok |-> FALSE, err |-> "ValueError", val |-> <<>>]
    ELSE [ok |-> TRUE, err |-> None, val |-> twists.v]

(***************************************************************************)
(* NucleosomeArray.create(nucArrayType, nucleosomeCount, basePairsPerRod,  *)
(* linker, spacer) with the constructors it calls.  The result is the      *)
(* exception raised (exc) or the array: its rod count L, its nucleosome    *)
(* indices nuc (zero-based, as in the source) and, per rod, how many times *)
(* utils.exitAngles was applied to the vertical rod to get its angles.     *)
(***************************************************************************)
RECURSIVE CumSum(_)
CumSum(s) ==
    IF s = <<>> THEN <<>>
    ELSE LET front == SubSeq(s, 1, Len(s) - 1)
         IN  Append(CumSum(front), SumSeq(s))

Raised(e) == [exc |-> e, L |-> 0, nuc |-> <<>>, exits |-> <<>>]

\* basePairArray = [spacer] + [linker] * (nucleosomeCount - 1) + [spacer]
basePairArray(nucleosomeCount, linker, spacer) ==
    <<spacer>> \o Repeat(linker, IF nucleosomeCount >= 1 THEN nucleosomeCount - 1 ELSE 0)
               \o <<spacer>>

\* NakedDNA.__init__ and NucleosomeArray.__init__: euler is all zero except
\* euler[nucPos] = exitAngles([0, 0, 0]); rods are numbered 0..L-1.
NucleosomeArrayInit(rodCount, nucPos) ==
    IF rodCount = 0 THEN Raised("ZeroDivisionError")
    ELSE IF \E k \in 1..Len(nucPos) : nucPos[k] >= rodCount THEN Raised("IndexError")
    ELSE [exc |-> None, L |-> rodCount, nuc |-> nucPos,
          exits |-> [i \in 1..rodCount |->
                        IF \E k \in 1..Len(nucPos) : nucPos[k] = i - 1 THEN 1 ELSE 0]]

\* The loop of the 'relaxed' style: prev is the angle triple carried along,
\* replaced by exitAngles(prev) at the head of the remaining nucPos.
RECURSIVE RelaxedExits(_, _, _, _)
RelaxedExits(i, rodCount, nucPos, prev) ==
    IF i >= rodCount THEN <<>>
    ELSE IF nucPos # <<>> /\ i = Head(nucPos)
         THEN <<prev + 1>> \o RelaxedExits(i + 1, rodCount, Tail(nucPos), prev + 1)
         ELSE <<prev>> \o RelaxedExits(i + 1, rodCount, nucPos, prev)

create_unchecked(nucArrayType, nucleosomeCount, basePairsPerRod, linker, spacer) ==
    LET bp == basePairArray(nucleosomeCount, linker, spacer)
        numRods == [k \in 1..Len(bp) |-> bp[k] \div basePairsPerRod]
        rodCount == SumSeq(numRods)
        cs == CumSum(numRods)
        nucPos == SubSeq(cs, 1, Len(cs) - 1)
        dna == NucleosomeArrayInit(rodCount, nucPos)
    IN  IF dna.exc # None THEN dna
        ELSE IF nucArrayType = "standard" THEN dna
        ELSE IF nucArrayType = "relaxed"
             THEN [dna EXCEPT !.exits = RelaxedExits(0, rodCount, nucPos, 0)]
        ELSE Raised("ValueError")

create(nucArrayType, nucleosomeCount, basePairsPerRod, linker, spacer) ==
    IF linker % basePairsPerRod # 0 THEN Raised("ValueError")
    ELSE IF spacer % basePairsPerRod # 0 THEN Raised("ValueError")
    ELSE create_unchecked(nucArrayType, nucleosomeCount, basePairsPerRod, linker, spacer)

(***************************************************************************)
(* Rotation geometry on the quarter-turn grid.                             *)
(***************************************************************************)
Cos(k) == CASE k % 4 = 0 -> 1 [] k % 4 = 1 -> 0 [] k % 4 = 2 -> -1 [] OTHER -> 0
Sin(k) == CASE k % 4 = 0 -> 0 [] k % 4 = 1 -> 1 [] k % 4 = 2 -> 0 [] OTHER -> -1

\* utils.rotation_matrices, one rod: a = <<phi, theta, psi>>; rows R[1..3].
rotation_matrix(a) ==
    LET cph == Cos(a[1])
        sph == Sin(a[1])
        cth == Cos(a[2])
        sth == Sin(a[2])
        cps == Cos(a[3])
        sps == Sin(a[3])
    IN  << << cph * cps - cth * sph * sps,  cph * sps + cth * cps * sph,  sth * sph >>,
           << -cps * sph - cth * cph * sps, -sph * sps + cth * cph * cps, cph * sth >>,
           << sth * sps,                    -cps * sth,                   cth >> >>

\* NakedDNA.deltaMatrices, one junction: transpose(Rs[j]) @ Rs[j+1], entry (p, q).
DeltaEntry(Ra, Rb, p, q) == Ra[1][p] * Rb[1][q] + Ra[2][p] * Rb[2][q] + Ra[3][p] * Rb[3][q]

\* The bending angle with the sign of the cosine flipped.
betaSq_flipped(Ra, Rb) == 2 * (1 + DeltaEntry(Ra, Rb, 3, 3))

\* NakedDNA.twistBendAngles in the squared mode, one junction.
betaSq(Ra, Rb) == 2 * (1 - DeltaEntry(Ra, Rb, 3, 3))
GammaSq(Ra, Rb) ==
    1 - DeltaEntry(Ra, Rb, 1, 1) - DeltaEntry(Ra, Rb, 2, 2) + DeltaEntry(Ra, Rb, 3, 3)

(***************************************************************************)
(* Nucleosome geometry (utils.py) on the quarter-turn grid.  The superhelix *)
(* is taken with zero pitch: _zeta_max = 2 pi 1.65 (234 degrees modulo a    *)
(* turn) is 3 quarter turns and _helix_entry_tilt = arctan2(-2 pi r_0, z_0) *)
(* (-84.8 degrees) is -1 quarter turn.                                      *)
(***************************************************************************)
zeta_max == 3
helix_entry_tilt == -1

Cross(u, v) ==
    << u[2] * v[3] - u[3] * v[2], u[3] * v[1] - u[1] * v[3], u[1] * v[2] - u[2] * v[1] >>

n_f == << -Cos(zeta_max), Sin(zeta_max), 0 >>
t_f == << -Sin(zeta_max), -Cos(zeta_max), 0 >>
b_f == Cross(t_f, n_f)
nf_tf_matrix == << n_f, b_f, t_f >>

Transpose(m) ==
    << << m[1][1], m[2][1], m[3][1] >>,
       << m[1][2], m[2][2], m[3][2] >>,
       << m[1][3], m[2][3], m[3][3] >> >>

\* np.dot of two 3 x 3 matrices (both factors are evaluated once).
Dot(m1, m2) ==
    CHOOSE out \in
        { [i \in 1..3 |-> [k \in 1..3 |-> a[i][1] * b[1][k] + a[i][2] * b[2][k] + a[i][3] * b[3][k]]] :
            a \in {m1}, b \in {m2} } : TRUE

multiplyMatrices3(m1, m2, m3) == Dot(Dot(m1, m2), m3)

axialRotMatrix(theta, axis) ==
    IF axis = 2
    THEN << << Cos(theta), Sin(theta), 0 >>, << -Sin(theta), Cos(theta), 0 >>, << 0, 0, 1 >> >>
    ELSE IF axis = 0
    THEN << << 1, 0, 0 >>, << 0, Cos(theta), Sin(theta) >>, << 0, -Sin(theta), Cos(theta) >> >>
    ELSE << << Cos(theta), 0, -Sin(theta) >>, << 0, 1, 0 >>, << Sin(theta), 0, Cos(theta) >> >>

\* np.arctan2 and np.arccos where the grid needs them: results in (-2, 2]
\* and in 0..2 quarter turns.
arctan2(y, x) ==
    CASE y = 0 /\ x >= 0 -> 0
      [] y > 0 /\ x = 0 -> 1
      [] y = 0 /\ x < 0 -> 2
      [] OTHER -> -1

arccos(x) == CASE x = 1 -> 0 [] x = 0 -> 1 [] OTHER -> 2

anglesOfEulerMatrix(m) ==
    IF m[3][3] = 1 THEN << 0, 0, arctan2(m[1][2], m[1][1]) >>
    ELSE IF m[3][3] = -1 THEN << 0, 2, arctan2(m[1][2], m[1][1]) >>
    ELSE << arctan2(m[1][3], m[2][3]), arccos(m[3][3]), arctan2(m[3][1], -m[3][2]) >>

eulerMatrixOfAngles(angles) ==
    multiplyMatrices3(axialRotMatrix(angles[1], 2), axialRotMatrix(angles[2], 0),
                      axialRotMatrix(angles[3], 2))

AmatrixFromMatrix(entryMatrix) ==
    multiplyMatrices3(axialRotMatrix(helix_entry_tilt, 0), axialRotMatrix(2, 2),
                      Transpose(entryMatrix))

AmatrixFromAngles(entryangles) == AmatrixFromMatrix(eulerMatrixOfAngles(entryangles))

exitMatrix(entryangles) == Transpose(Dot(nf_tf_matrix, AmatrixFromAngles(entryangles)))

exitAngles(entryangles) ==
    CHOOSE out \in { anglesOfEulerMatrix(m) : m \in {exitMatrix(entryangles)} } : TRUE

\* The angles of a rod that lies behind k nucleosomes of a created array:
\* exitAngles applied k times to [0, 0, 0].
RECURSIVE ExitAnglesTimes(_)
ExitAnglesTimes(k) ==
    IF k = 0 THEN << 0, 0, 0 >>
    ELSE CHOOSE out \in { exitAngles(prev) : prev \in {ExitAnglesTimes(k - 1)} } : TRUE

(***************************************************************************)
(* Energy, in units of kT / EnergyScale.  With d = 740 / L the bending and *)
(* twist densities are L * (B * betaSq + C * GammaSq) / 1480, the stretch   *)
(* density is -force * prefactor * cos(theta) with force = 1.96 and         *)
(* prefactor = 1 / (1.38E-2 * 293.15): times 148000 these are integers      *)
(* (717.0489 is rounded to 717.05).                                         *)
(***************************************************************************)
BendModulus == 43
TwistModulus == 89
StretchScaled == 71705

\* NakedDNA.totalEnergyDensity, junction j (between rods j-1 and j), j in 1..L-1.
JunctionEnergy(a, b, rodCount) ==
    LET Ra == rotation_matrix(a)
        Rb == rotation_matrix(b)
    IN  100 * rodCount * (BendModulus * betaSq(Ra, Rb) + TwistModulus * GammaSq(Ra, Rb))
        - StretchScaled * Cos(a[2])

totalEnergyDensity(eul, rodCount) ==
    [j \in 1..(rodCount - 1) |-> JunctionEnergy(eul[j - 1], eul[j], rodCount)]

\* NakedDNA.tVector and totalExtension, in units of the rod length d.
tVector(a) == << Sin(a[2]) * Sin(a[1]), Cos(a[1]) * Sin(a[2]), Cos(a[2]) >>

RECURSIVE SumTangents(_, _)
SumTangents(eul, n) ==
    IF n = 0 THEN <<0, 0, 0>>
    ELSE LET rest == SumTangents(eul, n - 1)
             t == tVector(eul[n - 1])
         IN  << rest[1] + t[1], rest[2] + t[2], rest[3] + t[3] >>

totalExtension(eul, rodCount) == SumTangents(eul, rodCount)

(***************************************************************************)
(* The strand classes differ in the energy density.  A strand is described *)
(* by its class, its rod count, sim.squared, and bend_zeros (disordered     *)
(* strand: two rows of L - 1 offsets, in units of sigma_b).                 *)
(***************************************************************************)
Bare(rodCount) ==
    [kind |-> "NakedDNA", L |-> rodCount, squared |-> TRUE, bend_zeros |-> <<>>]

\* NakedDNA.twistBendAngles, one junction: (betaSq, GammaSq) in the squared
\* mode, else (beta1, beta2, Gamma), which are returned doubled here.
twistBendAngles(Ra, Rb, squared) ==
    IF squared THEN << betaSq(Ra, Rb), GammaSq(Ra, Rb) >>
    ELSE << DeltaEntry(Ra, Rb, 2, 3) - DeltaEntry(Ra, Rb, 3, 2),
            DeltaEntry(Ra, Rb, 3, 1) - DeltaEntry(Ra, Rb, 1, 3),
            DeltaEntry(Ra, Rb, 1, 2) - DeltaEntry(Ra, Rb, 2, 1) >>

\* Energy density of junction j of a DisorderedNakedDNA(L=L, Pinv=L/2960.),
\* for which sigma_b = (Pinv * d) ** 0.5 = 1/2 and Bm = B / (1 - B * Pinv):
\* DisorderedNakedDNA.bendingEnergyDensity on angles[0], angles[1], then
\* twistEnergyDensity on angles[-1] and stretchEnergyDensity, in the units
\* of JunctionEnergy (the bending term rounded down to an integer).
Square(x) == x * x

DisorderedEnergyOfAngles(angles, theta, strand, j) ==
    (25 * BendModulus * 2960 * strand.L
        * (Square((IF strand.squared THEN 2 ELSE 1) * angles[1] - strand.bend_zeros[1][j])
           + Square((IF strand.squared THEN 2 ELSE 1) * angles[2] - strand.bend_zeros[2][j])))
        \div (2960 - BendModulus * strand.L)
    + (IF strand.squared THEN 100 * TwistModulus * strand.L * angles[2]
       ELSE 25 * TwistModulus * strand.L * Square(angles[3]))
    - StretchScaled * Cos(theta)

DisorderedJunctionEnergy(a, b, strand, j) ==
    DisorderedEnergyOfAngles(
        twistBendAngles(rotation_matrix(a), rotation_matrix(b), strand.squared),
        a[2], strand, j)

\* totalEnergyDensity of the strand, by its class.
EnergyDensityOf(strand, eul) ==
    IF strand.kind = "DisorderedNakedDNA"
    THEN [j \in 1..(strand.L - 1) |-> DisorderedJunctionEnergy(eul[j - 1], eul[j], strand, j)]
    ELSE totalEnergyDensity(eul, strand.L)

(***************************************************************************)
(* The process-global generator np.random: a state and the values drawn    *)
(* from it.  A small congruential generator stands for it; what matters is *)
(* that every draw is a function of the state and advances it.             *)
(***************************************************************************)
RngNext(s) == (5 * s + 3) % 64

\* One entry of np.random.normal(0, sigma, ...), clipped at 5 sigma, in quarter turns.
NormalDraw(s) == ((s \div 4) % 3) - 1

\* Whether the uniform draw of a rod falls below exp(-deltaE), for deltaE > 0.
UniformBelow(s) == (s \div 8) % 2 = 1

\* moves = np.random.normal(size=(L - 2, 3)), drawn row by row.
RECURSIVE DrawMoves(_, _)
DrawMoves(s, n) ==
    IF n = 0 THEN [moves |-> <<>>, rng |-> s]
    ELSE LET s1 == RngNext(s)
             s2 == RngNext(s1)
             s3 == RngNext(s2)
             rest == DrawMoves(s3, n - 1)
         IN  [moves |-> << <<NormalDraw(s1), NormalDraw(s2), NormalDraw(s3)>> >> \o rest.moves,
              rng |-> rest.rng]

\* np.random.randn(2, n): two rows of n normal values, drawn row by row.
RECURSIVE DrawRow(_, _)
DrawRow(s, n) ==
    IF n = 0 THEN [row |-> <<>>, rng |-> s]
    ELSE LET s1 == RngNext(s)
             rest == DrawRow(s1, n - 1)
         IN  [row |-> <<NormalDraw(s1)>> \o rest.row, rng |-> rest.rng]

randn2(s, n) ==
    LET r1 == DrawRow(s, n)
        r2 == DrawRow(r1.rng, n)
    IN  [xi |-> <<r1.row, r2.row>>, rng |-> r2.rng]

(***************************************************************************)
(* The checkerboard masks of NakedDNA.__init__ over the interior rods      *)
(* 1..L-2 (entry i is the entry of rod i, index i-1 of the source arrays). *)
(***************************************************************************)
oddMask(rodCount) == [i \in 1..(rodCount - 2) |-> (i - 1) % 2 = 1]

\* np.roll(oddMask, 1): entry k of the result is entry k-1 of oddMask, cyclically.
evenMask(rodCount) ==
    LET n == rodCount - 2
        odd == oddMask(rodCount)
    IN  [i \in 1..n |-> IF i = 1 THEN odd[n] ELSE odd[i - 1]]

(***************************************************************************)
(* utils.metropolis(reject, deltaE, even): the entries of reject with the  *)
(* parity named by even (source indices: odd ones for even=False, even     *)
(* ones for even=True) are examined in order, one uniform draw each; an    *)
(* accepted entry is cleared.  i runs over the rods 1..n, source index i-1.*)
(***************************************************************************)
Accepts(dE, s) == dE <= 0 \/ UniformBelow(s)

RECURSIVE metropolis(_, _, _, _, _, _)
metropolis(reject, deltaE, even, s, i, n) ==
    IF i > n THEN [reject |-> reject, rng |-> s]
    ELSE IF ((i - 1) % 2 = 0) = even
         THEN LET s1 == RngNext(s)
                  r1 == IF Accepts(deltaE[i], s1) THEN [reject EXCEPT ![i] = FALSE]
                        ELSE reject
              IN  metropolis(r1, deltaE, even, s1, i + 1, n)
         ELSE metropolis(reject, deltaE, even, s, i + 1, n)

(***************************************************************************)
(* One sublattice pass of metropolisUpdate for component c (1 = phi,       *)
(* 2 = theta, 3 = psi): st holds euler, the baseline E0, the generator     *)
(* state and the accepted fractions (numerators over 2 * (L - 2)).         *)
(***************************************************************************)
Count(mask) == Cardinality({i \in DOMAIN mask : mask[i]})

\* The term with 1 in the place of 0.5.
AcceptedTerm_whole(n, reject) == 2 * n - 2 * Count(reject)

\* 0.5 - np.count_nonzero(reject)/(self.L - 2), as a numerator over 2 * (L - 2).
AcceptedTerm(n, reject) == n - 2 * Count(reject)

\* The slice taken one rod too early: self.euler[:-2, c] += sign * moves[:, c] * mask
ShiftInterior_fromRod0(eul, moves, mask, c, sign, rodCount) ==
    [r \in 0..(rodCount - 1) |->
        IF r <= rodCount - 3 /\ mask[r + 1]
        THEN [eul[r] EXCEPT ![c] = @ + sign * moves[r + 1][c]]
        ELSE eul[r]]

\* The whole rows are shifted: self.euler[1:-1] += sign * moves * mask[:, None]
ShiftInterior_allComponents(eul, moves, mask, c, sign, rodCount) ==
    [r \in 0..(rodCount - 1) |->
        IF r >= 1 /\ r <= rodCount - 2 /\ mask[r]
        THEN [k \in 1..3 |-> eul[r][k] + sign * moves[r][k]]
        ELSE eul[r]]

\* self.euler[1:-1, c] += sign * moves[:, c] * mask
ShiftInterior(eul, moves, mask, c, sign, rodCount) ==
    [r \in 0..(rodCount - 1) |->
        IF r >= 1 /\ r <= rodCount - 2 /\ mask[r]
        THEN [eul[r] EXCEPT ![c] = @ + sign * moves[r][c]]
        ELSE eul[r]]

\* reject = np.ones(L - 2): every rod starts as rejected.
InitialReject_ones(mask) == [i \in DOMAIN mask |-> TRUE]

\* reject = 1.0 * mask
InitialReject(mask) == mask

\* The first half of a pass: the move of the sublattice, deltaE against the
\* baseline st.E0, and the decisions of utils.metropolis.
PassDecision(strand, st, moves, c, mask, even) ==
    LET rodCount == strand.L
        n == rodCount - 2
        moved == ShiftInterior(st.euler, moves, mask, c, 1, rodCount)
        Ef == EnergyDensityOf(strand, moved)
        deltaE == [i \in 1..n |-> (Ef[i] - st.E0[i]) + (Ef[i + 1] - st.E0[i + 1])]
        met == metropolis(InitialReject(mask), deltaE, even, st.rng, 1, n)
    IN  [moved |-> moved, deltaE |-> deltaE, reject |-> met.reject, rng |-> met.rng]

SweepPassOf(strand, st, moves, c, mask, even, tracked) ==
    IF st.exc # None THEN st
    ELSE CHOOSE out \in
        { LET rodCount == strand.L
              n == rodCount - 2
              kept == ShiftInterior(dec.moved, moves, dec.reject, c, -1, rodCount)
          IN  IF tracked /\ n = 0
              THEN [st EXCEPT !.euler = kept, !.rng = dec.rng,
                              !.E0 = EnergyDensityOf(strand, kept),
                              !.exc = "ZeroDivisionError"]
              ELSE [st EXCEPT !.euler = kept, !.rng = dec.rng,
                              !.E0 = EnergyDensityOf(strand, kept),
                              !.acc[c] = IF tracked THEN @ + AcceptedTerm(n, dec.reject) ELSE @] :
            dec \in {PassDecision(strand, st, moves, c, mask, even)} } : TRUE

\* The pass of a bare strand (NakedDNA, NakedDNAWAcceptanceRatios).
SweepPass(st, moves, c, mask, even, rodCount, tracked) ==
    SweepPassOf(Bare(rodCount), st, moves, c, mask, even, tracked)

NoE0 == <<>>

(***************************************************************************)
(* NakedDNA.metropolisUpdate and, with tracked, the method of              *)
(* NakedDNAWAcceptanceRatios.  E0 is an energy density, or NoE0 for None.  *)
(***************************************************************************)
\* The six passes of the loop "for i in range(3)", numbered k = 0..5: component
\* k \div 2 + 1, first with oddMask (the even rods), then with evenMask.  Each
\* pass works on the value the pass before it left.
RECURSIVE SweepPassesOf(_, _, _, _, _)
SweepPassesOf(strand, st, moves, k, tracked) ==
    IF k = 6 THEN st
    ELSE LET c == (k \div 2) + 1
             mask == IF k % 2 = 0 THEN oddMask(strand.L) ELSE evenMask(strand.L)
         IN  CHOOSE out \in
                 { SweepPassesOf(strand, next, moves, k + 1, tracked) :
                     next \in {SweepPassOf(strand, st, moves, c, mask, k % 2 = 1, tracked)} } :
                 TRUE

SweepPasses(st, moves, k, rodCount, tracked) ==
    SweepPassesOf(Bare(rodCount), st, moves, k, tracked)

\* metropolisUpdate of a strand of any class.
metropolisUpdateOf(strand, eul, E0, s, tracked) ==
    LET base == IF E0 = NoE0 THEN EnergyDensityOf(strand, eul) ELSE E0
        drawn == DrawMoves(s, strand.L - 2)
    IN  SweepPassesOf(strand, [euler |-> eul, E0 |-> base, rng |-> drawn.rng,
                               acc |-> <<0, 0, 0>>, exc |-> None],
                      drawn.moves, 0, tracked)

metropolisUpdate(eul, E0, s, rodCount, tracked) ==
    metropolisUpdateOf(Bare(rodCount), eul, E0, s, tracked)

(***************************************************************************)
(* Evolution.  A series is a sequence of slots, a slot the empty sequence  *)
(* until written (np.empty) and <<value>> afterwards; slot k of the model  *)
(* is index k-1 of the source, so tstep_i and nstep_i count as there.      *)
(***************************************************************************)
EmptySeries(n) == [k \in 1..n |-> <<>>]

\* Evolution.__init__ up to the allocation of the series: tsteps.size.
SeriesSize(nsteps, targets, isTorsion, initial) ==
    (IF isTorsion THEN Len(nsteps) * Len(targets) ELSE Len(nsteps))
    + (IF initial THEN 1 ELSE 0)

\* Evolution.__init__: with initial the first save_energy indexes the number
\* returned by totalEnergy with [-1], which raises IndexError.
Evolution(nsteps, targets, isTorsion, initial) ==
    LET size == SeriesSize(nsteps, targets, isTorsion, initial)
    IN  [size |-> size, tstep_i |-> 0, nstep_i |-> 0,
         energy |-> EmptySeries(size), extension |-> EmptySeries(size),
         angles |-> EmptySeries(size), acceptance |-> EmptySeries(Len(nsteps)),
         exc |-> IF initial THEN "IndexError" ELSE None]

\* Evolution.save_energy(energy): data["energy"][tstep_i] = energy[-1]
save_energy(ev, energyList) ==
    IF ev.exc # None THEN ev
    ELSE IF energyList = <<>> \/ ev.tstep_i >= ev.size THEN [ev EXCEPT !.exc = "IndexError"]
    ELSE [ev EXCEPT !.energy[ev.tstep_i + 1] = <<energyList[Len(energyList)]>>]

\* Evolution.save_extension(extension): data["extension"][tstep_i] = extension[-1]
save_extension(ev, xList) ==
    IF ev.exc # None THEN ev
    ELSE IF xList = <<>> \/ ev.tstep_i >= ev.size THEN [ev EXCEPT !.exc = "IndexError"]
    ELSE [ev EXCEPT !.extension[ev.tstep_i + 1] = <<xList[Len(xList)]>>]

\* Evolution.save_angles(dna): data["angles"][tstep_i] = dna.euler; tstep_i += 1
save_angles(ev, eul) ==
    IF ev.exc # None THEN ev
    ELSE IF ev.tstep_i >= ev.size THEN [ev EXCEPT !.exc = "IndexError"]
    ELSE [ev EXCEPT !.angles[ev.tstep_i + 1] = <<eul>>, !.tstep_i = @ + 1]

\* Evolution.save_acceptance(acceptance): data["acceptance"][nstep_i] = acceptance; nstep_i += 1
save_acceptance(ev, acc) ==
    IF ev.exc # None THEN ev
    ELSE IF ev.nstep_i >= Len(ev.acceptance) THEN [ev EXCEPT !.exc = "IndexError"]
    ELSE [ev EXCEPT !.acceptance[ev.nstep_i + 1] = <<acc>>, !.nstep_i = @ + 1]

\* The checkpoint of one chunk: the chain of save_ calls of the protocols.
Checkpoint(ev, energyList, xList, acc, eul, tracked) ==
    LET e1 == save_extension(save_energy(ev, energyList), xList)
        e2 == IF tracked THEN save_acceptance(e1, acc) ELSE e1
    IN  save_angles(e2, eul)

(***************************************************************************)
(* The twist pin of torsionProtocol: self.euler[-1, 2] = x                 *)
(***************************************************************************)
PinTwist_relative(eul, x, rodCount) == [eul EXCEPT ![rodCount - 1][3] = @ + x]

PinTwist(eul, x, rodCount) == [eul EXCEPT ![rodCount - 1][3] = x]

(***************************************************************************)
(* The strand machine at rest: used by the specifications of the helpers.  *)
(***************************************************************************)
MainAtRest ==
    /\ kind = None /\ L = 0 /\ euler = <<>> /\ rng = 0
    /\ pc = "rest" /\ run = None /\ evol = None /\ hist = None

(***************************************************************************)
(* The strand and its protocols.                                           *)
(***************************************************************************)
Kinds == {"NakedDNA", "NakedDNAWAcceptanceRatios"}

Tracked(k) == k = "NakedDNAWAcceptanceRatios"

\* NakedDNA.DEFAULT_TWIST_STEP (pi/4).  It is read by twist_steps for a single
\* number only; the protocol runs below pass tuples and lists of quarter turns.
DEFAULT_TWIST_STEP == 1

NoCall == [op |-> "none", done |-> TRUE]

NoRun ==
    [proto |-> "none", phase |-> "none", mcSteps |-> 0, nsamples |-> 1,
     includeStart |-> FALSE, E0 |-> NoE0, nsteps |-> <<>>, dtype |-> "int",
     targets |-> <<>>,
     ti |-> 0, ci |-> 0, left |-> 0, E0cur |-> NoE0, energyList |-> <<>>,
     xList |-> <<>>, acc |-> <<0, 0, 0>>, err |-> None]

\* NakedDNA.__init__: self.euler = np.zeros((L, 3))
Vertical(rodCount) == [r \in 0..(rodCount - 1) |-> <<0, 0, 0>>]

\* The profile the caller applies to the new strand before a run: the twist
\* psi0 of the last rod (dna.euler[-1, 2] = psi0).
InitialProfile(rodCount, psi0) == [Vertical(rodCount) EXCEPT ![rodCount - 1][3] = psi0]

Init ==
    /\ call = NoCall
    /\ kind \in Kinds
    /\ L \in 2..MaxL
    /\ \E psi0 \in 0..MaxPsi0 :
          /\ euler = InitialProfile(L, psi0)
          /\ hist = [euler0 |-> InitialProfile(L, psi0), direct |-> 0,
                     perTarget |-> <<>>, writes |-> <<>>]
    /\ rng \in 0..MaxSeed
    /\ pc = "idle"
    /\ run = NoRun
    /\ evol = Evolution(<<>>, <<>>, FALSE, FALSE)

\* The user calls dna.metropolisUpdate() outside a protocol.
DirectSweep ==
    /\ pc \in {"idle", "done"}
    /\ hist.direct < MaxDirectSweeps
    /\ LET res == metropolisUpdate(euler, NoE0, rng, L, Tracked(kind))
       IN  /\ euler' = res.euler
           /\ rng' = res.rng
           /\ pc' = IF res.exc # None THEN "raised" ELSE pc
           /\ run' = [run EXCEPT !.err = res.exc]
    /\ hist' = [hist EXCEPT !.direct = @ + 1]
    /\ UNCHANGED <<call, kind, L, evol>>

\* The head of relaxationProtocol and torsionProtocol, up to the loops.
StartProtocol(proto, mcSteps, nsamples, includeStart, givenE0, twists) ==
    LET nsteps == partition(nsamples, mcSteps)
        tw == IF proto = "torsion" THEN twist_steps(DEFAULT_TWIST_STEP, twists)
              ELSE [ok |-> TRUE, err |-> None, val |-> <<>>]
        ev == Evolution(nsteps, tw.val, proto = "torsion", includeStart)
        empty == nsteps = <<>> \/ (proto = "torsion" /\ tw.val = <<>>)
        r == [NoRun EXCEPT !.proto = proto, !.mcSteps = mcSteps, !.nsamples = nsamples,
                           !.includeStart = includeStart,
                           !.E0 = IF givenE0 THEN totalEnergyDensity(euler, L) ELSE NoE0,
                           !.nsteps = nsteps,
                           !.dtype = partition_dtype(nsamples, mcSteps),
                           !.targets = tw.val, !.ti = 1, !.ci = 1]
    IN  /\ pc = "idle"
        /\ IF ~tw.ok
           THEN /\ pc' = "raised"
                /\ run' = [r EXCEPT !.phase = "args", !.err = tw.err]
                /\ UNCHANGED evol
           ELSE IF ev.exc # None
           THEN /\ pc' = "raised"
                /\ run' = [r EXCEPT !.phase = "init", !.err = ev.exc]
                /\ evol' = ev
           ELSE /\ pc' = IF empty THEN "done" ELSE "chunk"
                /\ run' = [r EXCEPT !.phase = "loop"]
                /\ evol' = ev
        /\ hist' = [hist EXCEPT
                      !.perTarget = [t \in 1..(IF proto = "torsion" THEN Len(tw.val) ELSE 1) |-> 0],
                      !.writes = [k \in 1..ev.size |-> 0]]
        /\ UNCHANGED <<call, kind, L, euler, rng>>

StartRelaxation ==
    \E mcSteps \in 0..MaxSteps, nsamples \in 1..MaxSamples,
       includeStart \in BOOLEAN, givenE0 \in BOOLEAN :
        StartProtocol("relaxation", mcSteps, nsamples, includeStart, givenE0,
                      [form |-> "list", v |-> <<>>])

\* The twists arguments of the runs: pairs (stop, step) and a triple on the
\* quarter-turn grid, a zero step, a 1-tuple, and explicit lists.
ProtocolTwists ==
    {[form |-> "tuple", v |-> <<stop, 1>>] : stop \in 1..MaxTurn}
    \cup {[form |-> "tuple", v |-> <<1, 2, 1>>], [form |-> "tuple", v |-> <<1, 0>>],
          [form |-> "tuple", v |-> <<1>>],
          [form |-> "list", v |-> <<>>], [form |-> "list", v |-> <<3, 1>>]}

StartTorsion ==
    \E mcSteps \in 0..MaxSteps, nsamples \in 1..MaxSamples,
       includeStart \in BOOLEAN, givenE0 \in BOOLEAN, twists \in ProtocolTwists :
        StartProtocol("torsion", mcSteps, nsamples, includeStart, givenE0, twists)

\* The number of sweeps mcRelaxation(force, E0, nstep) runs: range(nstep) in
\* NakedDNA, range(nstep - 1) and one tracked sweep in NakedDNAWAcceptanceRatios.
ChunkSweeps(nstep, tracked) ==
    IF tracked THEN (IF nstep >= 1 THEN nstep - 1 ELSE 0) + 1 ELSE nstep

\* One iteration of the protocol loop up to the first sweep: the twist pin
\* (torsion) and the head of mcRelaxation up to range(mcSteps), which raises
\* TypeError for a chunk that is a float.
BeginChunk ==
    /\ pc = "chunk"
    /\ LET eul == IF run.proto = "torsion" THEN PinTwist(euler, run.targets[run.ti], L)
                  ELSE euler
           E0 == IF run.E0 = NoE0 THEN totalEnergyDensity(eul, L) ELSE run.E0
           n == ChunkSweeps(run.nsteps[run.ci], Tracked(kind))
       IN  /\ euler' = eul
           /\ run' = [run EXCEPT !.E0cur = E0, !.energyList = <<SumSeq(E0)>>,
                                 !.xList = <<>>, !.left = n,
                                 !.err = IF run.dtype = "float" THEN "TypeError" ELSE @]
           /\ pc' = IF run.dtype = "float" THEN "raised"
                    ELSE IF n > 0 THEN "sweep" ELSE "save"
    /\ UNCHANGED <<call, kind, L, rng, evol, hist>>

\* One iteration of the loop of mcRelaxation.
SweepStep ==
    /\ pc = "sweep"
    /\ LET res == metropolisUpdate(euler, run.E0cur, rng, L, Tracked(kind) /\ run.left = 1)
       IN  /\ euler' = res.euler
           /\ rng' = res.rng
           /\ IF res.exc # None
              THEN /\ pc' = "raised"
                   /\ run' = [run EXCEPT !.err = res.exc]
              ELSE /\ pc' = IF run.left = 1 THEN "save" ELSE "sweep"
                   /\ run' = [run EXCEPT !.E0cur = res.E0,
                                         !.energyList = Append(@, SumSeq(res.E0)),
                                         !.xList = Append(@, totalExtension(res.euler, L)),
                                         !.acc = res.acc,
                                         !.left = @ - 1]
    /\ hist' = [hist EXCEPT !.perTarget[run.ti] = @ + 1]
    /\ UNCHANGED <<call, kind, L, evol>>

\* The checkpoint after mcRelaxation and the step of the protocol loops.
SaveCheckpoint ==
    /\ pc = "save"
    /\ LET ev == Checkpoint(evol, run.energyList, run.xList, run.acc, euler, Tracked(kind))
       IN  /\ evol' = ev
           /\ IF ev.exc # None
              THEN /\ pc' = "raised"
                   /\ run' = [run EXCEPT !.err = ev.exc]
                   /\ UNCHANGED hist
              ELSE /\ hist' = [hist EXCEPT !.writes[evol.tstep_i + 1] = @ + 1]
                   /\ IF run.ci < Len(run.nsteps)
                      THEN pc' = "chunk" /\ run' = [run EXCEPT !.ci = @ + 1]
                      ELSE IF run.proto = "torsion" /\ run.ti < Len(run.targets)
                      THEN pc' = "chunk" /\ run' = [run EXCEPT !.ti = @ + 1, !.ci = 1]
                      ELSE pc' = "done" /\ UNCHANGED run
    /\ UNCHANGED <<call, kind, L, euler, rng>>

Next ==
    \/ DirectSweep
    \/ StartRelaxation
    \/ StartTorsion
    \/ BeginChunk
    \/ SweepStep
    \/ SaveCheckpoint

Spec == Init /\ [][Next]_vars

(***************************************************************************)
(* Specification of partition: draw the arguments, then call it.           *)
(***************************************************************************)
InitPartition ==
    /\ \E n \in 1..MaxParts, t \in 0..MaxTotal :
          call = [op |-> "partition", n_parts |-> n, total |-> t, done |-> FALSE, out |-> <<>>]
    /\ MainAtRest

CallPartition ==
    /\ call.op = "partition" /\ ~call.done
    /\ call' = [call EXCEPT !.done = TRUE, !.out = partition(call.n_parts, call.total)]
    /\ UNCHANGED mainVars

NextPartition == CallPartition

SpecPartition == InitPartition /\ [][NextPartition]_vars

(***************************************************************************)
(* C1 as stated: n_parts chunks of total // n_parts followed by the        *)
(* remainder chunk when it is non-zero; for total < n_parts the single     *)
(* chunk [total]; the chunks sum to total.                                 *)
(***************************************************************************)
C1_AsStated ==
    (call.op = "partition" /\ call.done) =>
        LET n == call.n_parts
            t == call.total
        IN  /\ t < n => call.out = <<t>>
            /\ t >= n => call.out = Repeat(t \div n, n)
                                      \o (IF t % n # 0 THEN <<t % n>> ELSE <<>>)
            /\ SumSeq(call.out) = t

(***************************************************************************)
(* C1 amended: as stated, except that total = 0 yields no chunk at all     *)
(* (the single remainder chunk [total] is returned for 0 < total < n).     *)
(***************************************************************************)
C1_Partition ==
    (call.op = "partition" /\ call.done) =>
        LET n == call.n_parts
            t == call.total
        IN  /\ t = 0 => call.out = <<>>
            /\ (0 < t /\ t < n) => call.out = <<t>>
            /\ t >= n => call.out = Repeat(t \div n, n)
                                      \o (IF t % n # 0 THEN <<t % n>> ELSE <<>>)
            /\ SumSeq(call.out) = t

C1_Witness ==
    /\ call.op = "partition" /\ call.done
    /\ call.n_parts = 3 /\ call.total = 10
    /\ call.out = <<3, 3, 3, 1>>

(***************************************************************************)
(* Specification of twist_steps: draw the default step and the twist       *)
(* specification, then call it.                                            *)
(***************************************************************************)
TwistVals == -MaxTwist..MaxTwist

TwistInputs ==
    {[form |-> "stop", v |-> <<s>>] : s \in TwistVals}
    \cup {[form |-> "tuple", v |-> <<a>>] : a \in {1}}
    \cup {[form |-> "tuple", v |-> <<a, b>>] : a \in TwistVals, b \in TwistVals}
    \cup {[form |-> "tuple", v |-> <<a, b, c>>] : a \in TwistVals, b \in TwistVals, c \in TwistVals}
    \cup {[form |-> "list", v |-> l] : l \in {<<>>, <<1>>, <<2, 1>>, <<0, 3, 1>>}}

InitTwist ==
    /\ \E d \in 1..MaxDefaultStep, tw \in TwistInputs :
          call = [op |-> "twist_steps", default_step_size |-> d, twists |-> tw,
                  done |-> FALSE, out |-> None]
    /\ MainAtRest

CallTwistSteps ==
    /\ call.op = "twist_steps" /\ ~call.done
    /\ call' = [call EXCEPT !.done = TRUE,
                            !.out = twist_steps(call.default_step_size, call.twists)]
    /\ UNCHANGED mainVars

NextTwist == CallTwistSteps

SpecTwist == InitTwist /\ [][NextTwist]_vars

Sign(x) == IF x > 0 THEN 1 ELSE IF x < 0 THEN -1 ELSE 0

\* The targets of out begin at start, advance by |step| toward stop and end at stop.
EndsAtStop(out, start, stop, step) ==
    /\ out.ok
    /\ Len(out.val) >= 1
    /\ out.val[1] = start
    /\ \A i \in 1..(Len(out.val) - 1) :
          out.val[i + 1] - out.val[i] = Sign(stop - start) * Abs(step)
    /\ out.val[Len(out.val)] = stop
    /\ \A i \in 1..Len(out.val) : Abs(out.val[i] - start) <= Abs(stop - start)

(***************************************************************************)
(* C5: for twists = (stop, step) and (start, stop, step) with a non-zero   *)
(* step, the targets begin at start (0 for the pair), advance by |step|    *)
(* toward stop and end at stop: the last target is stop, none is beyond.   *)
(***************************************************************************)
C5_EndsAtStop ==
    (call.op = "twist_steps" /\ call.done /\ call.twists.form = "tuple") =>
        LET v == call.twists.v
        IN  /\ (Len(v) = 2 /\ v[2] # 0) => EndsAtStop(call.out, 0, v[1], v[2])
            /\ (Len(v) = 3 /\ v[3] # 0) => EndsAtStop(call.out, v[1], v[2], v[3])

(***************************************************************************)
(* C6: for a single non-zero stop s the step is the default step when      *)
(* |default| <= |s| and s otherwise, and the targets are 0, step, 2*step,  *)
(* ... (toward s) ending at s; for s = 4 * default they are the five       *)
(* targets 0, d, 2d, 3d, 4d.                                               *)
(***************************************************************************)
C6_SingleStop ==
    (call.op = "twist_steps" /\ call.done /\ call.twists.form = "stop"
        /\ call.twists.v[1] # 0) =>
        LET s == call.twists.v[1]
            d == call.default_step_size
            step == IF Abs(d) <= Abs(s) THEN d ELSE s
        IN  /\ EndsAtStop(call.out, 0, s, step)
            /\ s = 4 * d => call.out.val = <<0, d, 2 * d, 3 * d, 4 * d>>

(***************************************************************************)
(* Specification of NucleosomeArray.create: draw the arguments, call it.   *)
(***************************************************************************)
ArrayTypes == {"standard", "relaxed", "zigzag"}

InitCreate ==
    /\ \E ty \in ArrayTypes, n \in 0..MaxNucleosomes, b \in 1..MaxBasePairsPerRod,
          lk \in 0..MaxBasePairs, sp \in 0..MaxBasePairs :
          call = [op |-> "create", nucArrayType |-> ty, nucleosomeCount |-> n,
                  basePairsPerRod |-> b, linker |-> lk, spacer |-> sp,
                  done |-> FALSE, out |-> None]
    /\ MainAtRest

CallCreate ==
    /\ call.op = "create" /\ ~call.done
    /\ call' = [call EXCEPT !.done = TRUE,
                            !.out = create(call.nucArrayType, call.nucleosomeCount,
                                           call.basePairsPerRod, call.linker, call.spacer)]
    /\ UNCHANGED mainVars

NextCreate == CallCreate

SpecCreate == InitCreate /\ [][NextCreate]_vars

CreateReturned == call.op = "create" /\ call.done

(***************************************************************************)
(* C8: create raises ValueError whenever linker or spacer is not a         *)
(* multiple of basePairsPerRod or nucArrayType is neither 'standard' nor   *)
(* 'relaxed'; for all other inputs it returns an array.                    *)
(***************************************************************************)
C8_CreateErrors ==
    CreateReturned =>
        LET bad == \/ call.linker % call.basePairsPerRod # 0
                   \/ call.spacer % call.basePairsPerRod # 0
                   \/ call.nucArrayType \notin {"standard", "relaxed"}
        IN  /\ bad => call.out.exc = "ValueError"
            /\ ~bad => call.out.exc = None

(***************************************************************************)
(* C9: for every configuration create accepts, the nucleosome indices of   *)
(* the returned array are strictly increasing and strictly inside (0, L).  *)
(***************************************************************************)
C9_NucleosomeIndices ==
    (CreateReturned /\ call.out.exc = None) =>
        LET nuc == call.out.nuc
        IN  /\ \A k \in 1..(Len(nuc) - 1) : nuc[k] < nuc[k + 1]
            /\ \A k \in 1..Len(nuc) : 0 < nuc[k] /\ nuc[k] < call.out.L

(***************************************************************************)
(* Properties of the protocol runs (specification Spec).                   *)
(***************************************************************************)
RunEnded == pc \in {"done", "raised"} /\ run.phase \in {"init", "loop"}

(***************************************************************************)
(* C2: a relaxationProtocol run with mcSteps >= 1 executes exactly mcSteps *)
(* sweeps in total and a torsionProtocol run exactly mcSteps sweeps for    *)
(* each twist target, for the plain strand and for the tracking variant.   *)
(***************************************************************************)
C2_SweepCounts ==
    (RunEnded /\ run.mcSteps >= 1) =>
        \A t \in 1..Len(hist.perTarget) : hist.perTarget[t] = run.mcSteps

(***************************************************************************)
(* C3: with includeStart false a run records exactly one checkpoint per    *)
(* chunk: the series have one slot per chunk (per chunk and target for     *)
(* torsion), and when the run is over the write index equals the series    *)
(* length and every slot was written exactly once.                         *)
(***************************************************************************)
C3_OneCheckpointPerChunk ==
    (RunEnded /\ ~run.includeStart) =>
        /\ evol.size = (IF run.proto = "torsion" THEN Len(run.targets) ELSE 1)
                       * Len(partition(run.nsamples, run.mcSteps))
        /\ evol.tstep_i = evol.size
        /\ \A k \in 1..evol.size :
              /\ hist.writes[k] = 1
              /\ evol.energy[k] # <<>>
              /\ evol.extension[k] # <<>>
              /\ evol.angles[k] # <<>>

(***************************************************************************)
(* C4: in a torsion run the targets are processed in list order and the    *)
(* twist is absolute: the chunk being run is chunk tstep_i of the target   *)
(* list tiled over the chunks, and the psi of rod L-1 in the angle         *)
(* snapshot of checkpoint k is the target of that chunk, whatever psi the  *)
(* rod had before the run.                                                 *)
(***************************************************************************)
C4_AbsoluteTwist ==
    (run.proto = "torsion" /\ run.phase = "loop") =>
        LET n == Len(run.nsteps)
        IN  /\ pc \in {"chunk", "sweep", "save"} =>
                  /\ run.ti = (evol.tstep_i \div n) + 1
                  /\ run.ci = (evol.tstep_i % n) + 1
            /\ pc \in {"sweep", "save"} => euler[L - 1][3] = run.targets[run.ti]
            /\ \A k \in 1..evol.tstep_i :
                  /\ evol.angles[k] # <<>>
                  /\ evol.angles[k][1][L - 1][3] = run.targets[((k - 1) \div n) + 1]

C4_Witness ==
    /\ pc = "done" /\ run.proto = "torsion" /\ run.targets = <<3, 1>>
    /\ hist.euler0[L - 1][3] = 1
    /\ evol.tstep_i = 2
    /\ evol.angles[1][1][L - 1][3] = 3
    /\ evol.angles[2][1][L - 1][3] = 1

(***************************************************************************)
(* C7: no step moves rod 0; rod L-1 is changed by no sweep, and by the     *)
(* protocols only in psi and only by the pin of torsionProtocol, which     *)
(* sets it to the current target.  Hence rod 0 always has its initial      *)
(* angles and rod L-1 its initial phi and theta.                           *)
(***************************************************************************)
C7_Step ==
    /\ euler'[0] = euler[0]
    /\ euler'[0] = hist'.euler0[0]
    /\ euler'[L - 1][1] = hist'.euler0[L - 1][1]
    /\ euler'[L - 1][2] = hist'.euler0[L - 1][2]
    /\ pc # "chunk" => euler'[L - 1] = euler[L - 1]
    /\ (pc = "chunk" /\ euler'[L - 1] # euler[L - 1]) =>
          /\ run.proto = "torsion"
          /\ euler'[L - 1] = [euler[L - 1] EXCEPT ![3] = run.targets[run.ti]]

C7_BoundaryRods == [][C7_Step]_vars

C7_Witness ==
    /\ pc = "done" /\ run.proto = "torsion" /\ L = 4
    /\ hist.direct = 1
    /\ \E r \in 1..(L - 2) : euler[r] # hist.euler0[r]
    /\ euler[0] = hist.euler0[0]
    /\ euler[L - 1][3] # hist.euler0[L - 1][3]

(***************************************************************************)
(* C10: the Evolution record is append-only: a checkpoint writes energy,   *)
(* extension and the angle snapshot (the value of the chain at that time)  *)
(* at the index tstep_i and advances tstep_i by one; no other step changes *)
(* the record of the run, and no step changes an entry below tstep_i.      *)
(***************************************************************************)
C10_Step ==
    /\ pc # "idle" =>
          \A k \in 1..evol.tstep_i :
              /\ evol'.energy[k] = evol.energy[k]
              /\ evol'.extension[k] = evol.extension[k]
              /\ evol'.angles[k] = evol.angles[k]
    /\ pc \notin {"idle", "save"} => evol' = evol
    /\ pc = "save" =>
          LET i == evol.tstep_i + 1
          IN  /\ evol'.tstep_i = evol.tstep_i + 1
              /\ evol'.energy = [evol.energy EXCEPT ![i] = <<run.energyList[Len(run.energyList)]>>]
              /\ evol'.extension = [evol.extension EXCEPT ![i] = <<run.xList[Len(run.xList)]>>]
              /\ evol'.angles = [evol.angles EXCEPT ![i] = <<euler>>]

C10_AppendOnly == [][C10_Step]_vars

(***************************************************************************)
(* C11: a run with includeStart completes, and its series begin with an    *)
(* entry for the chain before the first sweep and pin, followed by the     *)
(* checkpoints of the chunks: one entry more than without includeStart.    *)
(***************************************************************************)
C11_StartCheckpoint ==
    (run.includeStart /\ run.phase \in {"init", "loop"}) =>
        /\ pc # "raised"
        /\ evol.size = (IF run.proto = "torsion" THEN Len(run.targets) ELSE 1)
                       * Len(run.nsteps) + 1
        /\ evol.tstep_i >= 1
        /\ evol.energy[1] # <<>> /\ evol.extension[1] # <<>> /\ evol.angles[1] # <<>>

(***************************************************************************)
(* C18: in the vertical configuration (all angles zero) the relative       *)
(* rotation of every junction is the identity and the bending and twist    *)
(* energy densities are zero at every junction: the energy density is the  *)
(* stretching term alone.                                                  *)
(***************************************************************************)
Identity3 == << <<1, 0, 0>>, <<0, 1, 0>>, <<0, 0, 1>> >>

C18_VerticalIsRelaxed ==
    (pc # "rest" /\ euler = Vertical(L)) =>
        \A j \in 1..(L - 1) :
            LET Ra == rotation_matrix(euler[j - 1])
                Rb == rotation_matrix(euler[j])
            IN  /\ \A p \in 1..3, q \in 1..3 : DeltaEntry(Ra, Rb, p, q) = Identity3[p][q]
                /\ BendModulus * betaSq(Ra, Rb) = 0
                /\ TwistModulus * GammaSq(Ra, Rb) = 0
                /\ totalEnergyDensity(euler, L)[j] = -StretchScaled

C18_Witness ==
    /\ pc = "sweep" /\ L = 4 /\ euler = Vertical(L)
    /\ run.proto = "relaxation" /\ run.E0 = NoE0
    /\ run.energyList = <<-3 * StretchScaled>>

(***************************************************************************)
(* Protocol runs on a NucleosomeArray.  constants() of NakedDNA returns a  *)
(* dictionary; NucleosomeArray.constants returns what dict.update returns, *)
(* which is None.  Evolution.__init__ calls update on that value.          *)
(***************************************************************************)
constants(k) == IF k = "NucleosomeArray" THEN None ELSE "dict"

\* NucleosomeArray.relaxationProtocol and torsionProtocol up to the end of
\* Evolution.__init__: partition, twist_steps (torsion), then the constructor.
\* A run that gets past the constructor returns the record with the metadata.
ArrayProtocol(dna, proto, mcSteps, nsamples, twists) ==
    LET nsteps == partition(nsamples, mcSteps)
        tw == IF proto = "torsion" THEN twist_steps(DEFAULT_TWIST_STEP, twists)
              ELSE [ok |-> TRUE, err |-> None, val |-> <<>>]
        data == constants("NucleosomeArray")
    IN  IF ~tw.ok THEN [exc |-> tw.err, data |-> None, nucleosome |-> None]
        ELSE IF data = None THEN [exc |-> "AttributeError", data |-> None, nucleosome |-> None]
        ELSE [exc |-> None, data |-> data, nucleosome |-> dna.nuc]

ArrayInputs ==
    {create(ty, n, 1, lk, sp) : ty \in {"standard", "relaxed"}, n \in 1..MaxNucleosomes,
                               lk \in 1..MaxBasePairs, sp \in 1..MaxBasePairs}

InitArrayRun ==
    /\ \E dna \in ArrayInputs, proto \in {"relaxation", "torsion"},
          mcSteps \in 1..MaxSteps, nsamples \in 1..MaxSamples, twists \in ProtocolTwists :
          /\ dna.exc = None
          /\ call = [op |-> "array_protocol", dna |-> dna, proto |-> proto,
                     mcSteps |-> mcSteps, nsamples |-> nsamples, twists |-> twists,
                     done |-> FALSE, out |-> None]
    /\ MainAtRest

CallArrayProtocol ==
    /\ call.op = "array_protocol" /\ ~call.done
    /\ call' = [call EXCEPT !.done = TRUE,
                            !.out = ArrayProtocol(call.dna, call.proto, call.mcSteps,
                                                  call.nsamples, call.twists)]
    /\ UNCHANGED mainVars

NextArrayRun == CallArrayProtocol

SpecArrayRun == InitArrayRun /\ [][NextArrayRun]_vars

(***************************************************************************)
(* C16: a protocol run on a NucleosomeArray returns a record that holds    *)
(* the constants of the array and its nucleosome indices.                  *)
(***************************************************************************)
C16_ArrayMetadata ==
    (call.op = "array_protocol" /\ call.done
        /\ (call.proto = "torsion" => twist_steps(DEFAULT_TWIST_STEP, call.twists).ok)) =>
        /\ call.out.exc = None
        /\ call.out.data # None
        /\ call.out.nucleosome = call.dna.nuc

(***************************************************************************)
(* The bookkeeping of one angle component of the acceptance-tracking       *)
(* metropolisUpdate, for every outcome of the two calls of                 *)
(* utils.metropolis: accepted1 and accepted2 are the rods whose move the   *)
(* first and the second call accept.                                       *)
(***************************************************************************)
\* reject after utils.metropolis(reject, deltaE, even): reject starts as the
\* mask, and the examined entries (those of the parity named by even) that
\* are accepted are cleared.
RejectAfter(mask, even, accepted) ==
    [i \in DOMAIN mask |-> mask[i] /\ ~((((i - 1) % 2 = 0) = even) /\ i \in accepted)]

TrackedComponent(rodCount, accepted1, accepted2) ==
    LET n == rodCount - 2
        reject1 == RejectAfter(oddMask(rodCount), FALSE, accepted1)
        reject2 == RejectAfter(evenMask(rodCount), TRUE, accepted2)
    IN  IF n = 0 THEN [exc |-> "ZeroDivisionError", acc |-> 0]
        ELSE [exc |-> None, acc |-> AcceptedTerm(n, reject1) + AcceptedTerm(n, reject2)]

InitTracked ==
    /\ \E rodCount \in 2..MaxRods :
          \E a1 \in SUBSET (1..(rodCount - 2)), a2 \in SUBSET (1..(rodCount - 2)) :
              call = [op |-> "tracked_component", L |-> rodCount, accepted1 |-> a1,
                      accepted2 |-> a2, done |-> FALSE, out |-> None]
    /\ MainAtRest

CallTrackedComponent ==
    /\ call.op = "tracked_component" /\ ~call.done
    /\ call' = [call EXCEPT !.done = TRUE,
                            !.out = TrackedComponent(call.L, call.accepted1, call.accepted2)]
    /\ UNCHANGED mainVars

NextTracked == CallTrackedComponent

SpecTracked == InitTracked /\ [][NextTracked]_vars

TrackedReturned == call.op = "tracked_component" /\ call.done

(***************************************************************************)
(* C13: for L >= 3 and every accept/reject outcome the accepted fraction   *)
(* of a component lies in [0, 1] (numerator in 0..2(L-2)).                 *)
(***************************************************************************)
C13_FractionInUnitInterval ==
    (TrackedReturned /\ call.L >= 3) =>
        /\ call.out.exc = None
        /\ call.out.acc >= 0
        /\ call.out.acc <= 2 * (call.L - 2)

C13_Witness ==
    /\ TrackedReturned /\ call.L = 6
    /\ call.accepted1 = {2} /\ call.accepted2 = {}
    /\ call.out.acc = 2

(***************************************************************************)
(* C14: for every L >= 2 and every outcome the tracking sweep computes its *)
(* accepted fractions without raising.                                     *)
(***************************************************************************)
C14_BookkeepingNeverRaises ==
    TrackedReturned => call.out.exc = None

(***************************************************************************)
(* C19: for every L >= 2 the two masks are disjoint and cover the interior *)
(* rods: every interior rod is in exactly one of oddMask and evenMask.     *)
(***************************************************************************)
C19_MasksPartitionInterior ==
    TrackedReturned =>
        \A r \in 1..(call.L - 2) : oddMask(call.L)[r] # evenMask(call.L)[r]

(***************************************************************************)
(* Two strands in one process.  euler is the chain of the strand that is   *)
(* watched and rng the state of np.random, which every strand draws from;  *)
(* call holds the chain of the other strand, the proposals of the last     *)
(* sweep of the watched strand, and what the watched strand's sweeps give  *)
(* when nothing else draws in between (alone: chain, generator state and   *)
(* proposals after the same number of sweeps from the same seed).          *)
(***************************************************************************)
InitReplicas ==
    /\ kind = "NakedDNA"
    /\ L \in 2..MaxL
    /\ euler = Vertical(L)
    /\ rng \in 0..MaxSeed
    /\ pc = "replicas" /\ run = None /\ evol = None /\ hist = None
    /\ call = [op |-> "replicas", other |-> Vertical(L), sweeps |-> 0, others |-> 0,
               proposals |-> <<>>,
               alone |-> [euler |-> Vertical(L), rng |-> rng, proposals |-> <<>>]]

\* A sweep of the watched strand: dna.metropolisUpdate()
ReplicaSweep ==
    /\ call.op = "replicas" /\ call.sweeps < MaxReplicaSweeps
    /\ LET res == metropolisUpdate(euler, NoE0, rng, L, FALSE)
           solo == metropolisUpdate(call.alone.euler, NoE0, call.alone.rng, L, FALSE)
       IN  /\ euler' = res.euler
           /\ rng' = res.rng
           /\ call' = [call EXCEPT
                         !.sweeps = @ + 1,
                         !.proposals = DrawMoves(rng, L - 2).moves,
                         !.alone = [euler |-> solo.euler, rng |-> solo.rng,
                                    proposals |-> DrawMoves(call.alone.rng, L - 2).moves]]
    /\ UNCHANGED <<kind, L, pc, run, evol, hist>>

\* A sweep of the other strand: other.metropolisUpdate()
OtherSweep ==
    /\ call.op = "replicas" /\ call.others < MaxOtherOps
    /\ LET res == metropolisUpdate(call.other, NoE0, rng, L, FALSE)
       IN  /\ rng' = res.rng
           /\ call' = [call EXCEPT !.others = @ + 1, !.other = res.euler]
    /\ UNCHANGED <<kind, L, euler, pc, run, evol, hist>>

\* The other strand is replaced by a new DisorderedNakedDNA(L=L), whose
\* constructor draws np.random.randn(2, L - 1).
OtherConstructDisordered ==
    /\ call.op = "replicas" /\ call.others < MaxOtherOps
    /\ rng' = randn2(rng, L - 1).rng
    /\ call' = [call EXCEPT !.others = @ + 1, !.other = Vertical(L)]
    /\ UNCHANGED <<kind, L, euler, pc, run, evol, hist>>

NextReplicas ==
    \/ ReplicaSweep
    \/ OtherSweep
    \/ OtherConstructDisordered

SpecReplicas == InitReplicas /\ [][NextReplicas]_vars

(***************************************************************************)
(* C12: the proposals and the accept decisions of a strand's sweeps are    *)
(* the same whether or not sweeps or constructions of another strand are   *)
(* interleaved: after any interleaving the watched strand has drawn the    *)
(* proposals, and reached the chain, of its sweeps run alone.              *)
(***************************************************************************)
C12_InstanceOwnedRandomness ==
    call.op = "replicas" =>
        /\ call.proposals = call.alone.proposals
        /\ euler = call.alone.euler

(***************************************************************************)
(* The disordered strand.  DisorderedNakedDNA(L=L, Pinv=L/2960.) runs      *)
(* NakedDNA.__init__, draws xi = np.random.randn(2, L - 1), keeps           *)
(* bend_zeros = sigma_b * xi (here in units of sigma_b) and then sets       *)
(* sim.squared = False.                                                     *)
(***************************************************************************)
\* The constructor with NakedDNA.__init__ run last: a new Simulation, in the
\* squared mode, replaces the one that was switched.
DisorderedNakedDNA_baseLast(rodCount, s) ==
    LET drawn == randn2(s, rodCount - 1)
    IN  [kind |-> "DisorderedNakedDNA", L |-> rodCount, squared |-> TRUE,
         bend_zeros |-> drawn.xi, rng |-> drawn.rng]

DisorderedNakedDNA(rodCount, s) ==
    LET drawn == randn2(s, rodCount - 1)
    IN  [kind |-> "DisorderedNakedDNA", L |-> rodCount, squared |-> FALSE,
         bend_zeros |-> drawn.xi, rng |-> drawn.rng]

\* call.strand is the strand object, call.drawn the offsets its constructor
\* drew, call.ops the number of sweeps and runs since.
InitDisordered ==
    /\ kind = "DisorderedNakedDNA"
    /\ L \in 2..MaxL
    /\ euler = Vertical(L)
    /\ pc = "disordered" /\ run = None /\ evol = None /\ hist = None
    /\ \E s \in 0..MaxSeed :
          LET dna == DisorderedNakedDNA(L, s)
          IN  /\ rng = dna.rng
              /\ call = [op |-> "DisorderedNakedDNA",
                         strand |-> [kind |-> dna.kind, L |-> dna.L, squared |-> dna.squared,
                                     bend_zeros |-> dna.bend_zeros],
                         drawn |-> randn2(s, L - 1).xi, ops |-> 0]

\* dna.metropolisUpdate(), which is also the one chunk of
\* dna.relaxationProtocol(mcSteps=1, nsamples=1)
DisorderedSweep ==
    /\ call.op = "DisorderedNakedDNA" /\ call.ops < MaxDisorderedOps
    /\ LET res == metropolisUpdateOf(call.strand, euler, NoE0, rng, FALSE)
       IN  /\ euler' = res.euler
           /\ rng' = res.rng
    /\ call' = [call EXCEPT !.ops = @ + 1]
    /\ UNCHANGED <<kind, L, pc, run, evol, hist>>

\* dna.torsionProtocol(twists=[x], mcSteps=1, nsamples=1): the last rod is
\* pinned to x, then one sweep.
DisorderedTorsion ==
    /\ call.op = "DisorderedNakedDNA" /\ call.ops < MaxDisorderedOps
    /\ \E x \in 0..MaxTurn :
          LET pinned == PinTwist(euler, x, L)
              res == metropolisUpdateOf(call.strand, pinned, NoE0, rng, FALSE)
          IN  /\ euler' = res.euler
              /\ rng' = res.rng
    /\ call' = [call EXCEPT !.ops = @ + 1]
    /\ UNCHANGED <<kind, L, pc, run, evol, hist>>

NextDisordered ==
    \/ DisorderedSweep
    \/ DisorderedTorsion

SpecDisordered == InitDisordered /\ [][NextDisordered]_vars

(***************************************************************************)
(* C15: a disordered strand is in the exact (non-squared) angle mode from  *)
(* construction on, and after any sequence of sweeps and protocol runs     *)
(* bend_zeros is still the 2 x (L - 1) array drawn at construction.        *)
(***************************************************************************)
C15_DisorderDrawnOnce ==
    call.op = "DisorderedNakedDNA" =>
        /\ call.strand.squared = FALSE
        /\ call.strand.bend_zeros = call.drawn
        /\ Len(call.strand.bend_zeros) = 2
        /\ \A i \in 1..2 : Len(call.strand.bend_zeros[i]) = L - 1

\* A four-rod disordered strand with a nonzero offset, moved off the
\* vertical by the sweeps and runs after its construction.
C15_Witness ==
    /\ call.op = "DisorderedNakedDNA" /\ call.ops = MaxDisorderedOps
    /\ L = 4
    /\ \E i \in 1..2 : \E j \in 1..3 : call.strand.bend_zeros[i][j] # 0
    /\ \E r \in 1..2 : euler[r] # <<0, 0, 0>>
    /\ call.strand.squared = FALSE

(***************************************************************************)
(* Junction matrices and energy of a NucleosomeArray.  Rods are numbered    *)
(* 0..L-1 as in the source; deltas is indexed by the source index 0..L-2    *)
(* (entry j: rods j and j+1).                                               *)
(***************************************************************************)
\* NakedDNA.deltaMatrices: Rs[:-1] transposed @ Rs[1:]
NakedDeltas(eul, rodCount) ==
    [j \in 0..(rodCount - 2) |->
        Dot(Transpose(rotation_matrix(eul[j])), rotation_matrix(eul[j + 1]))]

\* utils.calc_deltas: for i in nucs, deltas[i] = nf_tf . A(Rs[i-1]) . Rs[i]
\* (Rs[-1] is the last rod).  The function is compiled without bounds
\* checks: oob records a write outside deltas.
RECURSIVE calc_deltas(_, _, _, _)
calc_deltas(deltas, nucs, eul, rodCount) ==
    IF nucs = <<>> THEN [deltas |-> deltas, oob |-> FALSE]
    ELSE LET i == Head(nucs)
             before == eul[(i - 1) % rodCount]
             value == multiplyMatrices3(nf_tf_matrix,
                                        AmatrixFromMatrix(rotation_matrix(before)),
                                        rotation_matrix(eul[i]))
         IN  IF i \in DOMAIN deltas
             THEN calc_deltas([deltas EXCEPT ![i] = value], Tail(nucs), eul, rodCount)
             ELSE [calc_deltas(deltas, Tail(nucs), eul, rodCount) EXCEPT !.oob = TRUE]

\* NucleosomeArray.deltaMatrices
deltaMatrices(eul, rodCount, nuc) ==
    calc_deltas(NakedDeltas(eul, rodCount), nuc, eul, rodCount)

\* NakedDNA.totalEnergyDensity on a NucleosomeArray, whose d is
\* 0.34 * basePairs / L: entry j of 1..L-1 is the source entry j - 1, in
\* the units of JunctionEnergy (bending and twist rounded down to a
\* multiple of 100 units).
ArrayEnergyDensity(eul, rodCount, nuc, basePairs) ==
    CHOOSE out \in
        { [j \in 1..(rodCount - 1) |->
              100 * ((37000 * rodCount
                  * (BendModulus * 2 * (1 - Ds[j - 1][3][3])
                     + TwistModulus * (1 - Ds[j - 1][1][1] - Ds[j - 1][2][2] + Ds[j - 1][3][3])))
                  \div (17 * basePairs))
              - StretchScaled * Cos(eul[j - 1][2])] :
            Ds \in {deltaMatrices(eul, rodCount, nuc).deltas} } : TRUE

(***************************************************************************)
(* A strand as built, and one half pass of a sweep on it.  The strand is a  *)
(* bare NakedDNA(L) with the last rod twisted by the caller, or the array   *)
(* returned by NucleosomeArray.create.  call.nuc holds its nucleosome       *)
(* indices, call.basePairs the sum of basePairArray.                        *)
(***************************************************************************)
ArrayEuler(dna) == [r \in 0..(dna.L - 1) |-> ExitAnglesTimes(dna.exits[r + 1])]

NoPass == [c |-> 0, even |-> FALSE, moved |-> {}, deltaE |-> <<>>, alone |-> <<>>,
           sublattice |-> {}]

InitBuilt ==
    /\ pc = "built" /\ run = None /\ evol = None /\ hist = None /\ rng = 0
    /\ \/ /\ kind = "NakedDNA"
          /\ L \in 3..MaxArrayRods
          /\ \E psi0 \in 0..MaxPsi0 : euler = InitialProfile(L, psi0)
          /\ call = [op |-> "built", nucArrayType |-> None, nuc |-> <<>>, basePairs |-> 0,
                     deltas |-> <<>>, oob |-> FALSE, exc |-> None, pass |-> NoPass]
       \/ /\ kind = "NucleosomeArray"
          /\ \E ty \in {"standard", "relaxed"}, n \in 0..MaxNucleosomes,
                b \in 1..MaxBasePairsPerRod, lk \in 0..MaxBasePairs, sp \in 0..MaxBasePairs :
                LET dna == create(ty, n, b, lk, sp)
                IN  /\ dna.exc = None
                    /\ dna.L \in 2..MaxArrayRods
                    /\ L = dna.L
                    /\ euler = ArrayEuler(dna)
                    /\ call = [op |-> "built", nucArrayType |-> ty, nuc |-> dna.nuc,
                               basePairs |-> SumSeq(basePairArray(n, lk, sp)),
                               deltas |-> <<>>, oob |-> FALSE, exc |-> None, pass |-> NoPass]

\* What a write outside the junction array can do.
OutOfBoundsOutcomes(oob) == IF oob THEN {None, "SegmentationFault"} ELSE {None}

\* dna.deltaMatrices()
CallDeltaMatrices ==
    /\ call.op = "built" /\ call.exc = None /\ call.deltas = <<>>
    /\ LET res == IF kind = "NucleosomeArray" THEN deltaMatrices(euler, L, call.nuc)
                  ELSE [deltas |-> NakedDeltas(euler, L), oob |-> FALSE]
       IN  \E outcome \in OutOfBoundsOutcomes(res.oob) :
              call' = [call EXCEPT !.exc = outcome, !.oob = res.oob,
                                   !.deltas = IF outcome = None THEN <<res.deltas>> ELSE @]
    /\ UNCHANGED mainVars

\* self.totalEnergyDensity() of the strand as built
BuiltEnergyDensity(eul) ==
    IF kind = "NucleosomeArray" THEN ArrayEnergyDensity(eul, L, call.nuc, call.basePairs)
    ELSE totalEnergyDensity(eul, L)

RECURSIVE SumUpTo(_, _)
SumUpTo(f, n) == IF n = 0 THEN 0 ELSE f[n] + SumUpTo(f, n - 1)

\* np.sum(Ef - E0)
TotalChange(E0, Ef, rodCount) == SumUpTo([j \in 1..(rodCount - 1) |-> Ef[j] - E0[j]], rodCount - 1)

\* deltaE = (Ef - E0)[:-1] + (Ef - E0)[1:]
PassDeltaE(E0, Ef, rodCount) ==
    [i \in 1..(rodCount - 2) |-> (Ef[i] - E0[i]) + (Ef[i + 1] - E0[i + 1])]

\* The first statements of a half pass of metropolisUpdate, with E0 the
\* energy density of the strand before it: the rods of the sublattice are
\* moved in component c and deltaE is computed.  call.pass keeps deltaE
\* and, for each moved rod r, the change of the total energy when r is the
\* only rod moved.
HalfPassDeltaE ==
    /\ call.op = "built" /\ call.exc = None /\ call.pass = NoPass /\ L >= 3
    /\ \E c \in 1..3, even \in BOOLEAN :
          LET n == L - 2
              mask == IF even THEN evenMask(L) ELSE oddMask(L)
              sub == {r \in 1..n : mask[r]}
          IN  \E mv \in [sub -> {-1, 0, 1}] :
                \E outcome \in OutOfBoundsOutcomes(kind = "NucleosomeArray"
                                                    /\ deltaMatrices(euler, L, call.nuc).oob) :
                  LET moves == [r \in 1..n |-> [k \in 1..3 |-> IF r \in sub /\ k = c THEN mv[r] ELSE 0]]
                      E0 == BuiltEnergyDensity(euler)
                      moved == ShiftInterior(euler, moves, mask, c, 1, L)
                      Ef == BuiltEnergyDensity(moved)
                      only(r) == ShiftInterior(euler, moves, [i \in 1..n |-> i = r], c, 1, L)
                  IN  IF outcome # None
                      THEN /\ call' = [call EXCEPT !.exc = outcome]
                           /\ UNCHANGED mainVars
                      ELSE /\ euler' = moved
                           /\ call' = [call EXCEPT !.pass =
                                  [c |-> c, even |-> even, moved |-> {r \in sub : mv[r] # 0},
                                   deltaE |-> PassDeltaE(E0, Ef, L),
                                   alone |-> [r \in 1..n |->
                                                IF r \in sub
                                                THEN TotalChange(E0, BuiltEnergyDensity(only(r)), L)
                                                ELSE 0],
                                   sublattice |-> sub]]
                           /\ UNCHANGED <<kind, L, rng, pc, run, evol, hist>>

NextBuilt ==
    \/ CallDeltaMatrices
    \/ HalfPassDeltaE

SpecBuilt == InitBuilt /\ [][NextBuilt]_vars

(***************************************************************************)
(* C17: an array built by create('relaxed', ...) has no twist and no bend   *)
(* between rods: the rods on both sides of a junction that is not a         *)
(* nucleosome have the same angles, rod n is exitAngles(rod n-1) at every   *)
(* nucleosome index n, and the matrices deltaMatrices returns for the       *)
(* energy are the identity at all L-1 junctions.                            *)
(***************************************************************************)
IsNucleosome(i) == \E k \in 1..Len(call.nuc) : call.nuc[k] = i

C17_RelaxedIsRelaxed ==
    (call.op = "built" /\ call.nucArrayType = "relaxed"
        /\ call.pass = NoPass /\ call.deltas # <<>>) =>
        /\ \A i \in 1..(L - 1) : ~IsNucleosome(i) => euler[i] = euler[i - 1]
        /\ \A i \in 1..(L - 1) : IsNucleosome(i) => euler[i] = exitAngles(euler[i - 1])
        /\ \A j \in 0..(L - 2) : call.deltas[1][j] = Identity3

(***************************************************************************)
(* C20: the energy delta of a half pass is local: for every rod r of the    *)
(* sublattice the value deltaE computed with the whole sublattice moved is  *)
(* the change of the total energy caused by moving r alone, for a bare      *)
(* strand and for a NucleosomeArray.                                        *)
(***************************************************************************)
C20_LocalDelta ==
    (call.op = "built" /\ call.pass # NoPass) =>
        \A r \in call.pass.sublattice : call.pass.deltaE[r] = call.pass.alone[r]

(***************************************************************************)
(* C21: for each nucleosome index i inside (0, L), the entry of the         *)
(* junction array that deltaMatrices overwrites with the nucleosome         *)
(* transform of rods i-1 and i is the entry of the junction between rods    *)
(* i-1 and i (source index i-1), and the write is inside the L-1 long       *)
(* array.                                                                   *)
(***************************************************************************)
C21_NucleosomeJunctionEntry ==
    (call.op = "built" /\ kind = "NucleosomeArray" /\ call.pass = NoPass
        /\ (call.deltas # <<>> \/ call.exc # None)) =>
        /\ ~call.oob
        /\ call.exc = None
        /\ \A k \in 1..Len(call.nuc) :
              LET i == call.nuc[k]
              IN  (i > 0 /\ i < L) =>
                    call.deltas[1][i - 1] =
                        multiplyMatrices3(nf_tf_matrix,
                                          AmatrixFromMatrix(rotation_matrix(euler[i - 1])),
                                          rotation_matrix(euler[i]))

(***************************************************************************)
(* C22: in a protocol run, at the start of every sweep the baseline E0 used *)
(* to form deltaE is the energy density of the chain as it is then, also    *)
(* when the caller passed E0 to the protocol and after the twist pin.       *)
(***************************************************************************)
C22_BaselineIsCurrent ==
    pc = "sweep" => run.E0cur = totalEnergyDensity(euler, L)

(***************************************************************************)
(* One sweep of a bare strand, pass by pass.  call.k is the number of the   *)
(* next pass of the sweep under way (6: no sweep under way), call.E0 the    *)
(* baseline, call.moves the proposals of the sweep, call.order the          *)
(* component and sublattice of each pass done, call.last what the last     *)
(* pass saw and decided (pre: the chain before it, seed: the generator      *)
(* state before it).                                                        *)
(***************************************************************************)
NoLast == [c |-> 0, even |-> FALSE, mask |-> <<>>, pre |-> <<>>, seed |-> 0,
           deltaE |-> <<>>, reject |-> <<>>]

InitPasses ==
    /\ kind = "NakedDNA"
    /\ L \in 3..MaxPassRods
    /\ \E psi0 \in 0..MaxPsi0 : euler = InitialProfile(L, psi0)
    /\ rng \in 0..MaxPassSeed
    /\ pc = "passes" /\ run = None /\ evol = None /\ hist = None
    /\ call = [op |-> "passes", sweeps |-> 0, k |-> 6, E0 |-> NoE0, moves |-> <<>>,
               order |-> <<>>, last |-> NoLast]

\* The head of dna.metropolisUpdate(): E0 and the proposals.
BeginSweep ==
    /\ call.op = "passes" /\ call.k = 6 /\ call.sweeps < MaxPassSweeps
    /\ LET drawn == DrawMoves(rng, L - 2)
       IN  /\ rng' = drawn.rng
           /\ call' = [call EXCEPT !.k = 0, !.E0 = totalEnergyDensity(euler, L),
                                   !.moves = drawn.moves, !.order = <<>>, !.last = NoLast]
    /\ UNCHANGED <<kind, L, euler, pc, run, evol, hist>>

\* Pass k of the loop: component k \div 2 + 1, with oddMask first.
PassStep ==
    /\ call.op = "passes" /\ call.k < 6
    /\ LET c == (call.k \div 2) + 1
           even == call.k % 2 = 1
           mask == IF even THEN evenMask(L) ELSE oddMask(L)
           st == [euler |-> euler, E0 |-> call.E0, rng |-> rng,
                  acc |-> <<0, 0, 0>>, exc |-> None]
           dec == PassDecision(Bare(L), st, call.moves, c, mask, even)
           out == SweepPassOf(Bare(L), st, call.moves, c, mask, even, FALSE)
       IN  /\ euler' = out.euler
           /\ rng' = out.rng
           /\ call' = [call EXCEPT
                         !.k = @ + 1,
                         !.sweeps = IF call.k = 5 THEN @ + 1 ELSE @,
                         !.E0 = out.E0,
                         !.order = Append(@, <<c, {r \in 1..(L - 2) : mask[r]}>>),
                         !.last = [c |-> c, even |-> even, mask |-> mask, pre |-> euler,
                                   seed |-> rng, deltaE |-> dec.deltaE,
                                   reject |-> dec.reject]]
    /\ UNCHANGED <<kind, L, pc, run, evol, hist>>

NextPasses ==
    \/ BeginSweep
    \/ PassStep

SpecPasses == InitPasses /\ [][NextPasses]_vars

PassDone == call.op = "passes" /\ call.last # NoLast

RECURSIVE Advance(_, _)
Advance(s, n) == IF n = 0 THEN s ELSE Advance(RngNext(s), n - 1)

(***************************************************************************)
(* C23: the accept decision is per rod.  A moved rod with deltaE <= 0 is    *)
(* accepted and keeps its move; a rod is marked rejected only if it is in   *)
(* the sublattice and its deltaE > 0; rods outside the sublattice are never *)
(* marked rejected; and each examined rod takes exactly one draw whatever   *)
(* was decided for the others.                                              *)
(***************************************************************************)
C23_PerRodDecision ==
    PassDone =>
        LET p == call.last
            n == L - 2
        IN  /\ \A r \in 1..n :
                  /\ (p.mask[r] /\ p.deltaE[r] <= 0) =>
                        /\ ~p.reject[r]
                        /\ euler[r][p.c] = p.pre[r][p.c] + call.moves[r][p.c]
                  /\ p.reject[r] => (p.mask[r] /\ p.deltaE[r] > 0)
                  /\ ~p.mask[r] => ~p.reject[r]
            /\ rng = Advance(p.seed, Cardinality({r \in 1..n : ((r - 1) % 2 = 0) = p.even}))

\* A pass that accepted a downhill move of one rod and rejected the uphill
\* move of another.
C23_Witness ==
    /\ PassDone
    /\ \E r \in 1..(L - 2) :
          /\ call.last.mask[r] /\ call.moves[r][call.last.c] # 0
          /\ call.last.deltaE[r] < 0 /\ ~call.last.reject[r]
    /\ \E r \in 1..(L - 2) :
          /\ call.last.mask[r] /\ call.moves[r][call.last.c] # 0
          /\ call.last.deltaE[r] > 0 /\ call.last.reject[r]

EvenRods == {r \in 1..(L - 2) : r % 2 = 0}
OddRods == {r \in 1..(L - 2) : r % 2 = 1}

C25_PassOrder ==
    call.op = "passes" =>
        LET expected == << <<1, EvenRods>>, <<1, OddRods>>, <<2, EvenRods>>,
                           <<2, OddRods>>, <<3, EvenRods>>, <<3, OddRods>> >>
        IN  /\ Len(call.order) <= 6
            /\ call.order = SubSeq(expected, 1, Len(call.order))
            /\ call.k = 6 => Len(call.order) \in {0, 6}

(***************************************************************************)
(* C26: in the acceptance-tracking protocols every save_acceptance call     *)
(* writes inside the allocated acceptance series: at each checkpoint        *)
(* nstep_i is smaller than the number of rows of "acceptance", for any      *)
(* number of twist targets and chunks.                                      *)
(***************************************************************************)
C26_AcceptanceIndexInside ==
    (pc = "save" /\ Tracked(kind) /\ evol.exc = None) =>
        evol.nstep_i < Len(evol.acceptance)

====
